---- MODULE Spec2Model ----
(***************************************************************************)
(* Repository (lib/classes/Repository.ts): a passthrough adapter that      *)
(* turns each of seven operations into one remote query on a backend       *)
(* client and maps the backend's answer to a returned value or a raised    *)
(* error.                                                                  *)
(*                                                                         *)
(* Every operation is an async function with a single await.  An           *)
(* invocation is modelled by two steps: Call* runs the code up to the      *)
(* await (the query is built and issued), Settle* is the backend's answer  *)
(* together with the code after the await (error check, return or throw,   *)
(* catch block with its console.error).                                    *)
(*                                                                         *)
(* Two specifications share the operations:                                *)
(*   Spec    the backend answers with any response of the documented       *)
(*           shape ({data, error, count}) or throws;                       *)
(*   SpecDb  the backend is a table with primary key id that executes the  *)
(*           query it is sent, or fails with a transport exception.        *)
(* A third, SpecBuilds, calls the methods by name on an instance of any    *)
(* of the shipped builds (the source, dist/index.js, dist/index.mjs).      *)
(***************************************************************************)
EXTENDS Integers, Sequences, FiniteSets, TLC

VARIABLES supabaseClient, tableName, calls, table, build

vars == <<supabaseClient, tableName, calls, table, build>>

----------------------------------------------------------------------------
(* Bounds of the model *)

MaxId == 2
MaxCalls == 2

Ids == 1 .. MaxId
Slots == 1 .. MaxCalls
Names == {"ann", "bob"}
Fields == {"id", "name"}
TableNames == {"items", "games"}
Messages == {"relation not found", "permission denied"}

----------------------------------------------------------------------------
(* JavaScript values *)

Null == [t |-> "null"]
Undefined == [t |-> "undefined"]
Arr(items) == [t |-> "array", items |-> items]
Num(n) == [t |-> "number", n |-> n]

(* Records: field name -> value.  A full row names every field, a partial
   record any subset of them. *)
Row(i, n) == [f \in Fields |-> IF f = "id" THEN i ELSE n]
Rows == {Row(i, n) : i \in Ids, n \in Names}
Partials ==
    {[f \in {} |-> 0]}
        \cup {[f \in {"id"} |-> i] : i \in Ids}
        \cup {[f \in {"name"} |-> n] : n \in Names}
        \cup Rows

(* Error objects have an identity: `new Error(...)` inside invocation s makes
   an object no other part of the system holds. *)
NewError(s, name, message) ==
    [ident |-> <<"adapter", s>>, name |-> name, message |-> message]
BackendExceptions ==
    {[ident |-> <<"backend", 1>>, name |-> "FetchError", message |-> "network down"]}

----------------------------------------------------------------------------
(* The query each operation builds before its await *)

NoFilter == [kind |-> "none", field |-> "", values |-> {}]
Eq(field, v) == [kind |-> "eq", field |-> field, values |-> {v}]
In(field, vs) == [kind |-> "in", field |-> field, values |-> {vs[k] : k \in DOMAIN vs}]

(* a query builder that names a fixed table instead of this.tableName *)
QueryHardcoded(verb, payload, filter, count, head) ==
    [client |-> supabaseClient, table |-> "games", verb |-> verb,
     payload |-> payload, filter |-> filter, count |-> count, head |-> head]

Query(verb, payload, filter, count, head) ==
    [client |-> supabaseClient, table |-> tableName, verb |-> verb,
     payload |-> payload, filter |-> filter, count |-> count, head |-> head]

(* queries that lose a step of the builder chain *)
GetByIdQueryNoFilter(id) == Query("select", Null, NoFilter, "", FALSE)
GetByIdsQueryNoFilter(ids) == Query("select", Null, NoFilter, "", FALSE)
UpdateQueryWithId(id, updatedObject) ==
    Query("update",
          [f \in DOMAIN updatedObject \cup {"id"} |->
              IF f = "id" THEN id ELSE updatedObject[f]],
          Eq("id", id), "", FALSE)
DeleteQueryNoFilter(id) == Query("delete", Null, NoFilter, "", FALSE)
CountQueryNoCount == Query("select", Null, NoFilter, "", TRUE)

GetAllQuery == Query("select", Null, NoFilter, "", FALSE)
GetByIdQuery(id) == Query("select", Null, Eq("id", id), "", FALSE)
GetByIdsQuery(ids) == Query("select", Null, In("id", ids), "", FALSE)
InsertQuery(object) == Query("insert", object, NoFilter, "", FALSE)
UpdateQuery(id, updatedObject) == Query("update", updatedObject, Eq("id", id), "", FALSE)
DeleteQuery(id) == Query("delete", Null, Eq("id", id), "", FALSE)
CountQuery == Query("select", Null, NoFilter, "exact", TRUE)

----------------------------------------------------------------------------
(* The code after the await: from the backend's answer to the outcome *)

Returned(v) == [out |-> [kind |-> "returned", value |-> v], logs |-> <<>>]
(* a catch block that rethrows without console.error *)
CaughtSilently(tag, shown, e) ==
    [out |-> [kind |-> "raised", error |-> e], logs |-> <<>>]

(* catch (error) { console.error(tag, ...); throw error; } *)
Caught(tag, shown, e) ==
    [out |-> [kind |-> "raised", error |-> e],
     logs |-> <<[text |-> tag, shown |-> shown]>>]

(* data[0]: reading an index of null throws a TypeError, an index past the
   end of an array is undefined *)
TypeErrorNull(s) ==
    NewError(s, "TypeError", "Cannot read properties of null (reading '0')")
First(data) == IF Len(data.items) = 0 THEN Undefined ELSE data.items[1]

(* GetAll without its `if (error)` check *)
GetAllUnchecked(s, resp) ==
    IF resp.kind = "thrown" THEN Caught("Error in getAll:", TRUE, resp.exc)
    ELSE Returned(resp.data)

GetAll(s, resp) ==
    IF resp.kind = "thrown" THEN Caught("Error in getAll:", TRUE, resp.exc)
    ELSE IF resp.error # Null
    THEN Caught("Error in getAll:", TRUE,
                NewError(s, "Error", "Error fetching data: " \o resp.error.message))
    ELSE Returned(resp.data)

(* GetById that treats an empty result set as a failure *)
GetByIdStrict(s, resp) ==
    IF resp.kind = "thrown" THEN Caught("Error in GetGameById:", TRUE, resp.exc)
    ELSE IF resp.error # Null
    THEN Caught("Error in GetGameById:", TRUE,
                NewError(s, "Error", "Error fetching games: " \o resp.error.message))
    ELSE IF resp.data = Null
    THEN Caught("Error in GetGameById:", TRUE, TypeErrorNull(s))
    ELSE IF Len(resp.data.items) = 0
    THEN Caught("Error in GetGameById:", TRUE, NewError(s, "Error", "Not found"))
    ELSE Returned(First(resp.data))

GetById(s, resp) ==
    IF resp.kind = "thrown" THEN Caught("Error in GetGameById:", TRUE, resp.exc)
    ELSE IF resp.error # Null
    THEN Caught("Error in GetGameById:", TRUE,
                NewError(s, "Error", "Error fetching games: " \o resp.error.message))
    ELSE IF resp.data = Null
    THEN Caught("Error in GetGameById:", TRUE, TypeErrorNull(s))
    ELSE Returned(First(resp.data))

GetByIds(s, resp) ==
    IF resp.kind = "thrown" THEN Caught("Error in GetGameByCode:", TRUE, resp.exc)
    ELSE IF resp.error # Null
    THEN Caught("Error in GetGameByCode:", TRUE,
                NewError(s, "Error", "Error fetching games: " \o resp.error.message))
    ELSE Returned(resp.data)

Insert(s, resp) ==
    IF resp.kind = "thrown" THEN Caught("Error in insert:", FALSE, resp.exc)
    ELSE IF resp.error # Null
    THEN Caught("Error in insert:", FALSE,
                NewError(s, "Error", "Error inserting data: " \o resp.error.message))
    ELSE Returned(Undefined)

Update(s, resp) ==
    IF resp.kind = "thrown" THEN Caught("Error in edit:", FALSE, resp.exc)
    ELSE IF resp.error # Null
    THEN Caught("Error in edit:", FALSE,
                NewError(s, "Error", "Error updating data: " \o resp.error.message))
    ELSE IF resp.data = Null
    THEN Caught("Error in edit:", FALSE, TypeErrorNull(s))
    ELSE Returned(First(resp.data))

(* Delete whose catch block wraps what it caught in a new Error *)
DeleteRewraps(s, resp) ==
    IF resp.kind = "thrown"
    THEN Caught("Error in delete:", FALSE, NewError(s, "Error", resp.exc.message))
    ELSE IF resp.error # Null
    THEN Caught("Error in delete:", FALSE,
                NewError(s, "Error", "Error deleting data: " \o resp.error.message))
    ELSE Returned(Undefined)

Delete(s, resp) ==
    IF resp.kind = "thrown" THEN Caught("Error in delete:", FALSE, resp.exc)
    ELSE IF resp.error # Null
    THEN Caught("Error in delete:", FALSE,
                NewError(s, "Error", "Error deleting data: " \o resp.error.message))
    ELSE Returned(Undefined)

(* Count without the `?? 0` fallback *)
CountNoFallback(s, resp) ==
    IF resp.kind = "thrown" THEN Caught("Error in GetCount:", FALSE, resp.exc)
    ELSE IF resp.error # Null
    THEN Caught("Error in GetCount:", FALSE,
                NewError(s, "Error", "Error fetching data: " \o resp.error.message))
    ELSE Returned(resp.count)

Count(s, resp) ==
    IF resp.kind = "thrown" THEN Caught("Error in GetCount:", FALSE, resp.exc)
    ELSE IF resp.error # Null
    THEN Caught("Error in GetCount:", FALSE,
                NewError(s, "Error", "Error fetching data: " \o resp.error.message))
    ELSE Returned(IF resp.count \in {Null, Undefined} THEN Num(0) ELSE resp.count)

Continue(op, s, resp) ==
    CASE op = "GetAll" -> GetAll(s, resp)
      [] op = "GetById" -> GetById(s, resp)
      [] op = "GetByIds" -> GetByIds(s, resp)
      [] op = "Insert" -> Insert(s, resp)
      [] op = "Update" -> Update(s, resp)
      [] op = "Delete" -> Delete(s, resp)
      [] op = "Count" -> Count(s, resp)

----------------------------------------------------------------------------
(* Invocations *)

NoArgs == [f \in {} |-> 0]
NoResp == [kind |-> "none"]
NoOut == [kind |-> "none"]
Idle == [pc |-> "idle"]

(* The ids a call is about: the rows its filter or its payload names *)
Footprint(op, args) ==
    CASE op \in {"GetAll", "Count"} -> Ids
      [] op \in {"GetById", "Update", "Delete"} -> {args.id}
      [] op = "GetByIds" -> {args.ids[k] : k \in DOMAIN args.ids}
      [] op = "Insert" -> {args.object["id"]}

Issue(s, op, args, req) ==
    /\ calls[s].pc = "idle"
    /\ calls' = [calls EXCEPT ![s] =
          [pc |-> "awaiting", op |-> op, args |-> args, req |-> req,
           remoteCalls |-> 1, resp |-> NoResp, out |-> NoOut, logs |-> <<>>,
           before |-> Null, touched |-> FALSE, reinserted |-> FALSE,
           rekeyed |-> FALSE]]
    /\ UNCHANGED <<supabaseClient, tableName, table, build>>

CallGetAll(s) == Issue(s, "GetAll", NoArgs, GetAllQuery)
CallGetById(s, id) == Issue(s, "GetById", [id |-> id], GetByIdQuery(id))
CallGetByIds(s, ids) == Issue(s, "GetByIds", [ids |-> ids], GetByIdsQuery(ids))
CallInsert(s, object) == Issue(s, "Insert", [object |-> object], InsertQuery(object))
CallUpdate(s, id, updatedObject) ==
    Issue(s, "Update", [id |-> id, updatedObject |-> updatedObject],
          UpdateQuery(id, updatedObject))
CallDelete(s, id) == Issue(s, "Delete", [id |-> id], DeleteQuery(id))
CallCount(s) == Issue(s, "Count", NoArgs, CountQuery)

(* The caller drops a settled promise *)
Release(s) ==
    /\ calls[s].pc = "settled"
    /\ calls' = [calls EXCEPT ![s] = Idle]
    /\ UNCHANGED <<supabaseClient, tableName, table, build>>

----------------------------------------------------------------------------
(* Settling: the backend's answer arrives and the code after the await runs *)

Thrown(e) == [kind |-> "thrown", exc |-> e]
Resolved(data, error, count) ==
    [kind |-> "resolved", data |-> data, error |-> error, count |-> count]

(* Later writes seen by a settled call: `touched` once a write that took
   effect names an id of the call's footprint; for a settled Delete(i),
   `reinserted` once an Insert of id i took effect and `rekeyed` once an
   Update moved another row onto id i. *)
Observe(c, touchedIds, insertedIds, rekeyedIds) ==
    IF c.pc # "settled" THEN c
    ELSE [c EXCEPT
            !.touched = @ \/ (Footprint(c.op, c.args) \cap touchedIds # {}),
            !.reinserted = @ \/ (c.op = "Delete" /\ c.args.id \in insertedIds),
            !.rekeyed = @ \/ (c.op = "Delete" /\ c.args.id \in rekeyedIds)]

(* a continuation that sends the query once more after a failure *)
SettleRetry(s, resp, before, touchedIds, insertedIds, rekeyedIds) ==
    LET c == calls[s]
        k == Continue(c.op, s, resp)
    IN  calls' = [t \in Slots |->
                    IF t = s
                    THEN [c EXCEPT !.pc = "settled", !.resp = resp,
                                   !.out = k.out, !.logs = k.logs,
                                   !.before = before,
                                   !.remoteCalls =
                                       IF k.out.kind = "raised" THEN @ + 1 ELSE @]
                    ELSE Observe(calls[t], touchedIds, insertedIds, rekeyedIds)]

Settle(s, resp, before, touchedIds, insertedIds, rekeyedIds) ==
    LET c == calls[s]
        k == Continue(c.op, s, resp)
    IN  calls' = [t \in Slots |->
                    IF t = s
                    THEN [c EXCEPT !.pc = "settled", !.resp = resp,
                                   !.out = k.out, !.logs = k.logs,
                                   !.before = before]
                    ELSE Observe(calls[t], touchedIds, insertedIds, rekeyedIds)]

(* Spec: any answer of the documented shape.  A count request (head: true)
   carries no rows; on an error the other fields may hold anything. *)
AnyData ==
    {Null, Arr(<<>>), Arr(<<Row(1, "ann")>>), Arr(<<Row(2, "bob"), Row(1, "ann")>>)}
AnyCount == {Null, Undefined} \cup {Num(n) : n \in 0 .. MaxId}
AnyError == {[message |-> m] : m \in Messages}
(* what the data and count fields hold beside an error *)
Leftovers == {<<Null, Null>>, <<Arr(<<Row(1, "ann")>>), Num(1)>>}

AnyResponses(req) ==
    {Thrown(e) : e \in BackendExceptions}
        \cup {Resolved(l[1], e, l[2]) : l \in Leftovers, e \in AnyError}
        \cup (IF req.head
              THEN {Resolved(Null, Null, c) : c \in AnyCount}
              ELSE {Resolved(d, Null, Null) : d \in AnyData})

SettleAny(s) ==
    /\ calls[s].pc = "awaiting"
    /\ \E resp \in AnyResponses(calls[s].req) : Settle(s, resp, Null, {}, {}, {})
    /\ UNCHANGED <<supabaseClient, tableName, table, build>>

----------------------------------------------------------------------------
IdSeqs == UNION {[1 .. n -> Ids] : n \in 0 .. MaxId}

Init ==
    /\ supabaseClient = "client"
    /\ tableName \in TableNames
    /\ calls = [s \in Slots |-> Idle]
    /\ table = {}
    /\ build = "ts"

Invoke(s) ==
    \/ CallGetAll(s)
    \/ \E id \in Ids : CallGetById(s, id)
    \/ \E ids \in IdSeqs : CallGetByIds(s, ids)
    \/ \E object \in Rows : CallInsert(s, object)
    \/ \E id \in Ids, updatedObject \in Partials : CallUpdate(s, id, updatedObject)
    \/ \E id \in Ids : CallDelete(s, id)
    \/ CallCount(s)

Next ==
    \E s \in Slots :
        \/ Invoke(s)
        \/ SettleAny(s)
        \/ Release(s)

Spec == Init /\ [][Next]_vars

----------------------------------------------------------------------------
(* SpecDb: the backend holds the named table, with primary key id, and
   executes each query against it in one step. *)

Matches(row, filter) ==
    filter.kind = "none" \/ row[filter.field] \in filter.values

RECURSIVE SortById(_)
SortById(rows) ==
    IF rows = {} THEN <<>>
    ELSE LET r == CHOOSE x \in rows : \A y \in rows : x["id"] <= y["id"]
         IN  <<r>> \o SortById(rows \ {r})

(* update ... set: the fields the payload names are overwritten, the others
   kept *)
Merge(row, p) ==
    [f \in DOMAIN row \cup DOMAIN p |-> IF f \in DOMAIN p THEN p[f] ELSE row[f]]

DuplicateKey == [message |-> "duplicate key value violates unique constraint"]
NoChange(resp) ==
    [resp |-> resp, table |-> table, before |-> Null, touched |-> {},
     inserted |-> {}, rekeyed |-> {}]

DbSelect(req) ==
    LET rows == {r \in table : Matches(r, req.filter)}
    IN  {NoChange(IF req.head
                  THEN Resolved(Null, Null,
                                IF req.count = "exact" THEN Num(Cardinality(rows))
                                ELSE Null)
                  ELSE Resolved(Arr(SortById(rows)), Null, Null))}

DbInsert(req) ==
    LET r == req.payload
    IN  IF \E x \in table : x["id"] = r["id"]
        THEN {NoChange(Resolved(Null, DuplicateKey, Null))}
        ELSE {[resp |-> Resolved(Null, Null, Null), table |-> table \cup {r},
               before |-> Null, touched |-> {r["id"]}, inserted |-> {r["id"]},
               rekeyed |-> {}]}

(* Without a trailing select the backend returns the updated rows (return
   representation) or no data (return minimal), depending on its version. *)
DbUpdate(req) ==
    LET old == {r \in table : Matches(r, req.filter)}
        new == {Merge(r, req.payload) : r \in old}
        kept == table \ old
        newIds == {r["id"] : r \in new}
    IN  IF \E x \in kept : x["id"] \in newIds
        THEN {NoChange(Resolved(Null, DuplicateKey, Null))}
        ELSE {[resp |-> Resolved(d, Null, Null), table |-> kept \cup new,
               before |-> IF old = {} THEN Null ELSE CHOOSE r \in old : TRUE,
               touched |-> req.filter.values \cup newIds,
               inserted |-> {},
               rekeyed |-> newIds \ {r["id"] : r \in old}]
              : d \in {Null, Arr(SortById(new))}}

DbDelete(req) ==
    LET old == {r \in table : Matches(r, req.filter)}
    IN  {[resp |-> Resolved(Null, Null, Null), table |-> table \ old,
          before |-> Null, touched |-> req.filter.values, inserted |-> {},
          rekeyed |-> {}]}

DbExecute(req) ==
    CASE req.verb = "select" -> DbSelect(req)
      [] req.verb = "insert" -> DbInsert(req)
      [] req.verb = "update" -> DbUpdate(req)
      [] req.verb = "delete" -> DbDelete(req)

SettleDb(s) ==
    /\ calls[s].pc = "awaiting"
    /\ \E x \in DbExecute(calls[s].req) :
          /\ Settle(s, x.resp, x.before, x.touched, x.inserted, x.rekeyed)
          /\ table' = x.table
    /\ UNCHANGED <<supabaseClient, tableName, build>>

(* The request never reaches the table: the client throws *)
SettleThrown(s) ==
    /\ calls[s].pc = "awaiting"
    /\ \E e \in BackendExceptions : Settle(s, Thrown(e), Null, {}, {}, {})
    /\ UNCHANGED <<supabaseClient, tableName, table, build>>

NextDb ==
    \E s \in Slots :
        \/ Invoke(s)
        \/ SettleDb(s)
        \/ SettleThrown(s)
        \/ Release(s)

SpecDb == Init /\ [][NextDb]_vars

----------------------------------------------------------------------------
(* Properties *)

Operations == {"GetAll", "GetById", "GetByIds", "Insert", "Update", "Delete", "Count"}

Settled(s) == calls[s].pc = "settled"
SettledAs(s, op) == Settled(s) /\ calls[s].op = op
(* the backend call completed and its response carries no error *)
Succeeded(s) ==
    Settled(s) /\ calls[s].resp.kind = "resolved" /\ calls[s].resp.error = Null
(* the backend call completed and its response carries an error *)
Reported(s) ==
    Settled(s) /\ calls[s].resp.kind = "resolved" /\ calls[s].resp.error # Null
BackendThrew(s) == Settled(s) /\ calls[s].resp.kind = "thrown"
DidReturn(s) == Settled(s) /\ calls[s].out.kind = "returned"
DidRaise(s) == Settled(s) /\ calls[s].out.kind = "raised"

(* m occurs in msg as a contiguous substring *)
Embeds(msg, m) ==
    \E i \in 0 .. Len(msg) - Len(m) : SubSeq(msg, i + 1, i + Len(m)) = m

(* C1: whenever the backend call of any of the seven operations completes with
   a response whose error field is present with message m, the operation
   raises an error whose message embeds m and returns no value, whatever the
   data and count fields hold; for GetAll the message is exactly
   "Error fetching data: " followed by m. *)
C1_ReportedErrorIsRaised ==
    \A s \in Slots :
        Reported(s) =>
            /\ calls[s].op \in Operations
            /\ DidRaise(s)
            /\ Embeds(calls[s].out.error.message, calls[s].resp.error.message)
            /\ calls[s].op = "GetAll" =>
                  calls[s].out.error.message
                      = "Error fetching data: " \o calls[s].resp.error.message

C1_Witness ==
    \E s \in Slots :
        /\ SettledAs(s, "GetAll")
        /\ calls[s].resp.kind = "resolved"
        /\ calls[s].resp.error = [message |-> "relation not found"]
        /\ calls[s].resp.data # Null
        /\ DidRaise(s)
        /\ calls[s].out.error.message = "Error fetching data: relation not found"

(* C2: when the backend call itself throws an exception e, the operation
   raises that same object e (same identity, same message, not wrapped) and
   returns no value. *)
C2_ThrownIsReraisedUnchanged ==
    \A s \in Slots :
        BackendThrew(s) => DidRaise(s) /\ calls[s].out.error = calls[s].resp.exc

C2_Witness ==
    \E s \in Slots :
        /\ SettledAs(s, "Delete")
        /\ BackendThrew(s)
        /\ DidRaise(s)
        /\ calls[s].out.error \in BackendExceptions

(* C3: Update resolves without raising whenever the backend's update call
   completes with no error, whatever the response's data field holds (a
   non-empty array, an empty array, or null). *)
C3_UpdateResolvesOnSuccess ==
    \A s \in Slots : SettledAs(s, "Update") /\ Succeeded(s) => DidReturn(s)

C10_CountFallback ==
    \A s \in Slots :
        SettledAs(s, "Count") /\ Succeeded(s) =>
            /\ DidReturn(s)
            /\ calls[s].resp.count \in {Null, Undefined} => calls[s].out.value = Num(0)
            /\ \A n \in 0 .. MaxId :
                  calls[s].resp.count = Num(n) => calls[s].out.value = Num(n)

C10_Witness ==
    \E s \in Slots :
        /\ SettledAs(s, "Count")
        /\ Succeeded(s)
        /\ calls[s].resp.count = Null
        /\ DidReturn(s)
        /\ calls[s].out.value = Num(0)

----------------------------------------------------------------------------
(* Properties of the adapter on a table backend (SpecDb) *)

(* no write that took effect after the call settled names an id the call is
   about: what the call saw, or wrote, is still what the table holds there *)
Current(s) == Settled(s) /\ ~calls[s].touched
Present(i) == \E r \in table : r["id"] = i
IsRecord(v) == "t" \notin DOMAIN v

(* C5: GetByIds with the empty id sequence, or with ids none of which is in
   the table, returns the empty sequence and does not raise, provided the
   backend call succeeds. *)
C5_GetByIdsEmpty ==
    \A s \in Slots :
        /\ SettledAs(s, "GetByIds")
        /\ Succeeded(s)
        /\ Current(s)
        /\ \A k \in DOMAIN calls[s].args.ids : ~Present(calls[s].args.ids[k])
        => calls[s].out = [kind |-> "returned", value |-> Arr(<<>>)]

C5_Witness ==
    \E s, t \in Slots :
        /\ table # {}
        /\ SettledAs(s, "GetByIds") /\ Succeeded(s) /\ Current(s)
        /\ calls[s].args.ids = <<>>
        /\ calls[s].out.value = Arr(<<>>)
        /\ SettledAs(t, "GetByIds") /\ Succeeded(t) /\ Current(t)
        /\ calls[t].args.ids # <<>>
        /\ \A k \in DOMAIN calls[t].args.ids : ~Present(calls[t].args.ids[k])
        /\ calls[t].out.value = Arr(<<>>)

(* C6: when Insert(r) succeeded and no other write touched r's id since, a
   GetById of that id answered afterwards returns a record with r's fields. *)
C6_InsertThenGetById ==
    \A s, t \in Slots :
        /\ SettledAs(s, "Insert") /\ DidReturn(s) /\ Current(s)
        /\ SettledAs(t, "GetById") /\ Succeeded(t) /\ Current(t)
        /\ calls[t].args.id = calls[s].args.object["id"]
        => calls[t].out = [kind |-> "returned", value |-> calls[s].args.object]

C6_Witness ==
    \E s, t \in Slots :
        /\ SettledAs(s, "Insert") /\ DidReturn(s) /\ Current(s)
        /\ SettledAs(t, "GetById") /\ Succeeded(t) /\ Current(t)
        /\ calls[t].args.id = calls[s].args.object["id"]
        /\ calls[t].out.value = calls[s].args.object
        /\ Cardinality(table) = MaxId

(* the record v carries every field of p with p's value and every other
   field with the value it has in the row `old` *)
Reflects(v, p, old) ==
    /\ IsRecord(v)
    /\ DOMAIN v = DOMAIN old \cup DOMAIN p
    /\ \A f \in DOMAIN v : v[f] = IF f \in DOMAIN p THEN p[f] ELSE old[f]

UpdateThenGetById(s, t) ==
    /\ SettledAs(s, "Update") /\ Succeeded(s) /\ Current(s)
    /\ calls[s].before # Null
    /\ SettledAs(t, "GetById") /\ Succeeded(t) /\ Current(t)
    /\ calls[t].args.id = calls[s].args.id

UpdateReflected(s, t) ==
    /\ DidReturn(t)
    /\ Reflects(calls[t].out.value, calls[s].args.updatedObject, calls[s].before)
    /\ calls[s].req.payload = calls[s].args.updatedObject

KeepsId(s) ==
    "id" \in DOMAIN calls[s].args.updatedObject
        => calls[s].args.updatedObject["id"] = calls[s].args.id

(* C7 as stated: for every existing id i and partial record p, Update(i, p)
   followed by GetById(i) with no write to i in between returns a record with
   p's fields and the other fields as before the Update; the adapter passes p
   to the backend unmodified. *)
C7_UpdateThenGetById_AnyRecord ==
    \A s, t \in Slots : UpdateThenGetById(s, t) => UpdateReflected(s, t)

(* C7 amended: the same, for every partial record p that does not name an id
   other than i. *)
C7_UpdateThenGetById ==
    \A s, t \in Slots : UpdateThenGetById(s, t) /\ KeepsId(s) => UpdateReflected(s, t)

C7_Witness ==
    \E s, t \in Slots :
        /\ UpdateThenGetById(s, t) /\ KeepsId(s)
        /\ DOMAIN calls[s].args.updatedObject = {"name"}
        /\ calls[s].before["name"] # calls[s].args.updatedObject["name"]
        /\ DidReturn(t)
        /\ calls[t].out.value["name"] = calls[s].args.updatedObject["name"]
        /\ calls[t].out.value["id"] = calls[s].before["id"]

DeleteThenGetById(s, t) ==
    /\ SettledAs(s, "Delete") /\ DidReturn(s)
    /\ SettledAs(t, "GetById") /\ Succeeded(t) /\ Current(t)
    /\ calls[t].args.id = calls[s].args.id

(* the step in which the backend answers the Delete of slot s leaves every
   row with another id in the table, and adds none *)
DeleteKeepsOthers ==
    \A s \in Slots :
        calls[s].pc = "awaiting" /\ calls[s].op = "Delete" /\ calls'[s].pc = "settled"
            => \A r \in Rows : r["id"] # calls[s].args.id => (r \in table <=> r \in table')

AbsentAfterDelete_NoInsert ==
    \A s, t \in Slots :
        DeleteThenGetById(s, t) /\ ~calls[s].reinserted
            => calls[t].out = [kind |-> "returned", value |-> Undefined]

AbsentAfterDelete ==
    \A s, t \in Slots :
        DeleteThenGetById(s, t) /\ ~calls[s].reinserted /\ ~calls[s].rekeyed
            => calls[t].out = [kind |-> "returned", value |-> Undefined]

(* C8 as stated: after a Delete(i) that completed successfully, a GetById(i)
   answered afterwards returns absent whenever no Insert of id i took effect
   in between; Delete(i) leaves the rows with other ids unchanged. *)
C8_DeleteThenGetById_NoInsert ==
    []AbsentAfterDelete_NoInsert /\ [][DeleteKeepsOthers]_vars

(* C8 amended: after a Delete(i) that completed successfully, a GetById(i)
   answered afterwards returns absent whenever neither an Insert of id i nor
   an Update that sets another row's id to i took effect in between;
   Delete(i) leaves the rows with other ids unchanged. *)
C8_DeleteThenGetById ==
    []AbsentAfterDelete /\ [][DeleteKeepsOthers]_vars

C8_Witness ==
    \E s, t \in Slots :
        /\ DeleteThenGetById(s, t) /\ ~calls[s].reinserted /\ ~calls[s].rekeyed
        /\ calls[s].touched
        /\ calls[t].out.value = Undefined
        /\ table # {}

(* C9: when Count and GetAll are answered from the same table snapshot and
   both succeed, Count returns the length of the sequence GetAll returns; on
   an empty table Count returns 0 and GetAll the empty sequence. *)
C9_CountIsLengthOfGetAll ==
    /\ \A s, t \in Slots :
          /\ SettledAs(s, "Count") /\ DidReturn(s) /\ Current(s)
          /\ SettledAs(t, "GetAll") /\ DidReturn(t) /\ Current(t)
          => /\ calls[t].out.value.t = "array"
             /\ calls[s].out.value = Num(Len(calls[t].out.value.items))
    /\ \A s \in Slots :
          table = {} /\ DidReturn(s) /\ Current(s) =>
              /\ calls[s].op = "Count" => calls[s].out.value = Num(0)
              /\ calls[s].op = "GetAll" => calls[s].out.value = Arr(<<>>)

C9_Witness ==
    \E s, t \in Slots :
        /\ SettledAs(s, "Count") /\ DidReturn(s) /\ Current(s)
        /\ SettledAs(t, "GetAll") /\ DidReturn(t) /\ Current(t)
        /\ calls[s].out.value = Num(MaxId)
        /\ Len(calls[t].out.value.items) = MaxId

----------------------------------------------------------------------------
(* Properties of the error channel and of the instance (Spec) *)

(* the five kinds of operation of the error-handling design *)
KindOf(op) ==
    CASE op \in {"GetAll", "GetById", "GetByIds"} -> "fetch"
      [] op = "Insert" -> "insert"
      [] op = "Update" -> "update"
      [] op = "Delete" -> "delete"
      [] op = "Count" -> "count"

(* C11: the error raised for a backend-reported failure is tagged to the kind
   of operation that failed (fetch, insert, update, delete, count): two
   failures of different kinds never raise the same message, so a failed
   Count is told from a failed GetAll with the same backend message. *)
C11_MessageTellsKind ==
    \A s, t \in Slots :
        Reported(s) /\ Reported(t) /\ KindOf(calls[s].op) # KindOf(calls[t].op)
            => calls[s].out.error.message # calls[t].out.error.message

(* C13: every invocation issues exactly one remote call, whether it ends by
   returning or by raising: a call that is outstanding or has ended has sent
   its query once, also after a reported error and after a thrown
   exception. *)
C13_ExactlyOneRemoteCall ==
    \A s \in Slots :
        calls[s].pc \in {"awaiting", "settled"} => calls[s].remoteCalls = 1

C13_Witness ==
    \E s, t \in Slots :
        /\ Reported(s) /\ DidRaise(s) /\ calls[s].remoteCalls = 1
        /\ BackendThrew(t) /\ DidRaise(t) /\ calls[t].remoteCalls = 1

(* C14: an invocation ends by returning a value or by raising an error and
   nothing else; a reported error and a thrown exception always end in a
   raise; a raise comes with exactly one logged line, a return with none. *)
C14_RaiseIsLoggedOnce ==
    \A s \in Slots :
        Settled(s) =>
            /\ DidReturn(s) \/ DidRaise(s)
            /\ Reported(s) \/ BackendThrew(s) => DidRaise(s)
            /\ DidRaise(s) => Len(calls[s].logs) = 1
            /\ DidReturn(s) => calls[s].logs = <<>>

C14_Witness ==
    \E s, t \in Slots :
        /\ SettledAs(s, "Insert") /\ Reported(s) /\ DidRaise(s)
        /\ Len(calls[s].logs) = 1
        /\ SettledAs(t, "Insert") /\ DidReturn(t) /\ calls[t].logs = <<>>

(* C15: no step changes the instance's client or table name; every remote
   call names the client and the table given at construction; the outcome
   of a call is the one its own response yields, and it stays that outcome
   whatever other calls on the instance do afterwards. *)
NamesOwnTable ==
    \A s \in Slots :
        calls[s].pc \in {"awaiting", "settled"} =>
            calls[s].req.client = supabaseClient /\ calls[s].req.table = tableName

OutcomeFromOwnResponse ==
    \A s \in Slots :
        Settled(s) => calls[s].out = Continue(calls[s].op, s, calls[s].resp).out

InstanceUnchanged ==
    /\ supabaseClient' = supabaseClient
    /\ tableName' = tableName
    /\ \A s \in Slots :
          calls[s].pc = "settled" /\ calls'[s].pc = "settled" =>
              calls'[s].out = calls[s].out /\ calls'[s].resp = calls[s].resp

C15_InstanceIsFixed ==
    /\ []NamesOwnTable
    /\ []OutcomeFromOwnResponse
    /\ [][InstanceUnchanged]_vars

C15_Witness ==
    \E s, t \in Slots :
        /\ s # t
        /\ SettledAs(s, "GetByIds") /\ SettledAs(t, "GetByIds")
        /\ calls[s].args = calls[t].args
        /\ DidReturn(s) /\ DidRaise(t)
        /\ calls[s].req.table = tableName /\ calls[t].req.table = tableName

----------------------------------------------------------------------------
(* SpecBuilds: the shipped forms of the class.  `build` is the module the
   instance's class was loaded from; the type declarations (index.d.ts) name
   the methods a caller may call. *)

Builds == {"ts", "cjs", "esm"}
Declared == {"GetAll", "GetById", "GetByIds", "Insert", "Update", "Delete", "Count"}

(* the method names on the class's prototype *)
Exposed(b) ==
    IF b = "cjs"
    THEN {"GetAll", "GetById", "GetByIds", "Insert", "Update", "Delete", "GetCount"}
    ELSE {"GetAll", "GetById", "GetByIds", "Insert", "Update", "Delete", "Count"}

(* the method of the source whose body the named method has *)
Body(name) == IF name = "GetCount" THEN "Count" ELSE name

InvokeOp(s, op) ==
    \/ op = "GetAll" /\ CallGetAll(s)
    \/ op = "GetById" /\ \E id \in Ids : CallGetById(s, id)
    \/ op = "GetByIds" /\ \E ids \in IdSeqs : CallGetByIds(s, ids)
    \/ op = "Insert" /\ \E object \in Rows : CallInsert(s, object)
    \/ op = "Update"
          /\ \E id \in Ids, updatedObject \in Partials : CallUpdate(s, id, updatedObject)
    \/ op = "Delete" /\ \E id \in Ids : CallDelete(s, id)
    \/ op = "Count" /\ CallCount(s)

(* instance.name(...): a name the prototype lacks is undefined, and calling
   it throws at the call site; no query is built *)
NotAFunction(s, name) ==
    /\ calls[s].pc = "idle"
    /\ calls' = [calls EXCEPT ![s] =
          [pc |-> "threw", method |-> name, remoteCalls |-> 0,
           out |-> [kind |-> "raised",
                    error |-> NewError(s, "TypeError", name \o " is not a function")]]]
    /\ UNCHANGED <<supabaseClient, tableName, table, build>>

CallMethod(s, name) ==
    IF name \in Exposed(build) THEN InvokeOp(s, Body(name)) ELSE NotAFunction(s, name)

(* the caller handles the TypeError *)
Discard(s) ==
    /\ calls[s].pc = "threw"
    /\ calls' = [calls EXCEPT ![s] = Idle]
    /\ UNCHANGED <<supabaseClient, tableName, table, build>>

InitBuilds ==
    /\ supabaseClient = "client"
    /\ tableName = "items"
    /\ calls = [s \in Slots |-> Idle]
    /\ table = {}
    /\ build \in Builds

NextBuilds ==
    \E s \in Slots :
        \/ \E name \in Declared \cup {"GetCount"} : CallMethod(s, name)
        \/ SettleAny(s)
        \/ Release(s)
        \/ Discard(s)

SpecBuilds == InitBuilds /\ [][NextBuilds]_vars

(* C12: every shipped form of the class exposes the seven operations under
   the names GetAll, GetById, GetByIds, Insert, Update, Delete, Count, and
   nothing else: a call of one of the seven names on an instance from any
   build reaches the method (Count() in particular) instead of failing as
   a call of something that is not a function. *)
C12_SameSevenNames ==
    \A s \in Slots : calls[s].pc = "threw" => calls[s].method \notin Declared

====
